---- MODULE Spec2Model ----
(***************************************************************************)
(* Model of opencog/atoms/pattern/BindLink.cc: construction of a BindLink  *)
(* (init, extract_variables, the four constructors) and its execution      *)
(* (do_execute, execute).  The pattern matcher, the instantiator, the      *)
(* variable-scope parsers and the AtomSpace are collaborators whose code   *)
(* lives elsewhere; they appear here as inputs or as small operators.      *)
(***************************************************************************)
EXTENDS Integers, Sequences, FiniteSets, TLC

VARIABLES
  obj,      \* the BindLink under study, or NoObj
  ctor,     \* the constructor call that produced obj (or failed)
  stores,   \* the content of each AtomSpace: a sequence of atoms
  last,     \* the latest do_execute / execute call and its outcome
  prev,     \* the execute call before it
  budget    \* calls the caller still makes

vars == <<obj, ctor, stores, last, prev, budget>>

(* ------------------------------ bounds -------------------------------- *)
NumFrags == 2          \* distinct graph fragments (Handles) a caller can pass
MaxArity == 4          \* longest outgoing set tried at construction
MaxClauses == 1        \* most mandatory / optional / virtual clauses of a pattern
MaxResults == 3        \* most groundings reported by one matcher run

(* ------------------------------ values -------------------------------- *)
UNDEFINED == 0        \* Handle::UNDEFINED, the default-constructed Handle
nullptr == "nullptr"
BIND_LINK == "BIND_LINK"
GET_LINK == "GET_LINK"
SET_LINK == "SET_LINK"
NoException == [exc |-> "none", msg |-> "", arg |-> ""]
NoObj == [type |-> "none"]

Frags == 1..NumFrags
Types == {BIND_LINK, GET_LINK}
Stores == {"as1", "as2"}     \* the AtomSpaces

\* All sequences over S of length at most n.
SeqsUpTo(S, n) == UNION {[1..k -> S] : k \in 0..n}

\* nameserver().isA(t, BIND_LINK): BIND_LINK is the only bind kind modelled.
isA(t, kind) == t = kind

\* What the collaborators called from init() derive from the body
\* (unbundle_clauses, common_init, setup_components) and whether the
\* variable declaration parses (init_scoped_variables).
Envs == [declOk : BOOLEAN,
         mandatory : 0..MaxClauses,
         optionals : 0..MaxClauses,
         virtual : 0..MaxClauses,
         components : 1..(MaxClauses + 1)]

InvalidParamException(msg, arg) ==
  [exc |-> "InvalidParamException", msg |-> msg, arg |-> ToString(arg)]

BadSizeMsg == "Expecting an outgoing set size of at most two, got %d"
BadTypeMsg == "Expecting a BindLink, got %s"
DisconnectedMsg == "BindLink consists of multiple disconnected components!"

\* The spec's names for the two construction errors of this file.
StructuralError(e) == e # NoException /\ e.msg = BadSizeMsg
TypeMismatchError(e) == e # NoException /\ e.msg = BadTypeMsg

(* ------------------------- variable scope ----------------------------- *)
\* Variables::find_variables(body): free-variable discovery over the body.
find_variables(h) == [how |-> "find_variables", of |-> h]

\* init_scoped_variables(vardecl): the scope parsed from the declaration.
init_scoped_variables(h) == [how |-> "init_scoped_variables", of |-> h]

NoVarlist == [how |-> "empty", of |-> UNDEFINED]

(* ------------------------ extract_variables --------------------------- *)
\* Faulty variant: the upper size limit is off by one.
extract_variables_loose(oset, declOk) ==
  LET sz == Len(oset) IN
  IF sz < 2 \/ 4 < sz
  THEN [exc |-> InvalidParamException(BadSizeMsg, sz),
        _vardecl |-> UNDEFINED, _body |-> UNDEFINED,
        _implicand |-> UNDEFINED, _varlist |-> NoVarlist]
  ELSE IF 2 = sz
  THEN [exc |-> NoException,
        _vardecl |-> UNDEFINED, _body |-> oset[1],
        _implicand |-> oset[2], _varlist |-> find_variables(oset[1])]
  ELSE [exc |-> IF declOk THEN NoException
                ELSE [exc |-> "SyntaxException",
                      msg |-> "malformed variable declaration",
                      arg |-> ToString(oset[1])],
        _vardecl |-> oset[1], _body |-> oset[2],
        _implicand |-> oset[3], _varlist |-> init_scoped_variables(oset[1])]

\* Faulty variant: the three-element form takes body and implicand in the wrong order.
extract_variables_swapped(oset, declOk) ==
  LET sz == Len(oset) IN
  IF sz < 2 \/ 3 < sz
  THEN [exc |-> InvalidParamException(BadSizeMsg, sz),
        _vardecl |-> UNDEFINED, _body |-> UNDEFINED,
        _implicand |-> UNDEFINED, _varlist |-> NoVarlist]
  ELSE IF 2 = sz
  THEN [exc |-> NoException,
        _vardecl |-> UNDEFINED, _body |-> oset[1],
        _implicand |-> oset[2], _varlist |-> find_variables(oset[1])]
  ELSE [exc |-> IF declOk THEN NoException
                ELSE [exc |-> "SyntaxException",
                      msg |-> "malformed variable declaration",
                      arg |-> ToString(oset[1])],
        _vardecl |-> oset[1], _body |-> oset[3],
        _implicand |-> oset[2], _varlist |-> init_scoped_variables(oset[1])]

\* BindLink::extract_variables(oset).  C++ indices 0,1,2 are 1,2,3 here.
\* declOk says whether init_scoped_variables accepts oset[0].
extract_variables(oset, declOk) ==
  LET sz == Len(oset) IN
  IF sz < 2 \/ 3 < sz
  THEN [exc |-> InvalidParamException(BadSizeMsg, sz),
        _vardecl |-> UNDEFINED, _body |-> UNDEFINED,
        _implicand |-> UNDEFINED, _varlist |-> NoVarlist]
  ELSE IF 2 = sz
  THEN [exc |-> NoException,
        _vardecl |-> UNDEFINED, _body |-> oset[1],
        _implicand |-> oset[2], _varlist |-> find_variables(oset[1])]
  ELSE [exc |-> IF declOk THEN NoException
                ELSE [exc |-> "SyntaxException",
                      msg |-> "malformed variable declaration",
                      arg |-> ToString(oset[1])],
        _vardecl |-> oset[1], _body |-> oset[2],
        _implicand |-> oset[3], _varlist |-> init_scoped_variables(oset[1])]

(* ------------------------------- init --------------------------------- *)
\* BindLink::init(): the type check, then extract_variables, then the
\* pattern analysis; yields the exception thrown (if any) and the object.
init(t, _outgoing, env) ==
  IF ~ isA(t, BIND_LINK)
  THEN [exc |-> InvalidParamException(BadTypeMsg, t), obj |-> NoObj]
  ELSE LET ev == extract_variables(_outgoing, env.declOk) IN
       IF ev.exc # NoException
       THEN [exc |-> ev.exc, obj |-> NoObj]
       ELSE [exc |-> NoException,
             obj |-> [type |-> t,
                      _outgoing |-> _outgoing,
                      _vardecl |-> ev._vardecl,
                      _body |-> ev._body,
                      _implicand |-> ev._implicand,
                      _varlist |-> ev._varlist,
                      mandatory |-> env.mandatory,
                      optionals |-> env.optionals,
                      _virtual |-> env.virtual,
                      _components |-> env.components,
                      redex_name |-> "anonymous BindLink",
                      _atom_space |-> nullptr]]

(* --------------------------- constructors ----------------------------- *)
CtorCall(how, oset, t, r) == [how |-> how, oset |-> oset, t |-> t, exc |-> r.exc]
NoCtor == [how |-> "none", oset |-> <<>>, t |-> BIND_LINK, exc |-> NoException]
NoCall == [op |-> "none"]

\* BindLink(const Handle& vardecl, const Handle& body, const Handle& rewrite)
BindLink3 ==
  /\ ctor = NoCtor
  /\ \E vardecl \in Frags, body \in Frags, rewrite \in Frags, env \in Envs :
       LET hseq == <<vardecl, body, rewrite>>
           r == init(BIND_LINK, hseq, env) IN
       /\ obj' = r.obj
       /\ ctor' = CtorCall("BindLink(vardecl, body, rewrite)", hseq, BIND_LINK, r)
  /\ UNCHANGED <<stores, last, prev, budget>>

\* BindLink(const Handle& body, const Handle& rewrite)
BindLink2 ==
  /\ ctor = NoCtor
  /\ \E body \in Frags, rewrite \in Frags, env \in Envs :
       LET hseq == <<body, rewrite>>
           r == init(BIND_LINK, hseq, env) IN
       /\ obj' = r.obj
       /\ ctor' = CtorCall("BindLink(body, rewrite)", hseq, BIND_LINK, r)
  /\ UNCHANGED <<stores, last, prev, budget>>

\* BindLink(const HandleSeq& hseq, Type t)
BindLinkSeq ==
  /\ ctor = NoCtor
  /\ \E hseq \in SeqsUpTo(Frags, MaxArity), t \in Types, env \in Envs :
       LET r == init(t, hseq, env) IN
       /\ obj' = r.obj
       /\ ctor' = CtorCall("BindLink(hseq, t)", hseq, t, r)
  /\ UNCHANGED <<stores, last, prev, budget>>

\* BindLink(const Link& l): the outgoing set and type are those of l.
BindLinkCopy ==
  /\ ctor = NoCtor
  /\ \E l \in [_outgoing : SeqsUpTo(Frags, MaxArity), type : Types], env \in Envs :
       LET r == init(l.type, l._outgoing, env) IN
       /\ obj' = r.obj
       /\ ctor' = CtorCall("BindLink(l)", l._outgoing, l.type, r)
  /\ UNCHANGED <<stores, last, prev, budget>>

(* ------------------------- the collaborators -------------------------- *)
Groundings == {1, 2}

\* What one run of the pattern matcher (PatternLink::satisfy) does: it
\* throws, or it reports a list of groundings, in some order and possibly
\* with repetitions.  optionals_present is DefaultPatternMatchCB's flag; it
\* is read only after a run that reported nothing, so it varies only there.
MatcherRuns ==
  {[throws |-> TRUE, raw |-> <<>>, optionals_present |-> FALSE]} \cup
  [throws : {FALSE}, raw : SeqsUpTo(Groundings, MaxResults) \ {<<>>},
   optionals_present : {FALSE}] \cup
  [throws : {FALSE}, raw : {<<>>}, optionals_present : BOOLEAN]

MatcherFailMsg == "pattern matcher failure"
MatchError(e) == e.msg = MatcherFailMsg
DisconnectedError(e) == e.msg = DisconnectedMsg
SegFault == [exc |-> "SIGSEGV", msg |-> "null AtomSpace dereferenced", arg |-> ""]

\* Instantiator: the implicand with the grounding g substituted; g = 0 is
\* the empty grounding used by inst.execute(implicand, true).
Instantiate(implicand, g) == implicand * (Cardinality(Groundings) + 1) + g

\* std::set<Handle>::insert on a set kept as its sorted element list.
RECURSIVE set_insert(_, _)
set_insert(s, x) ==
  IF s = <<>> THEN <<x>>
  ELSE IF x < Head(s) THEN <<x>> \o s
  ELSE IF x = Head(s) THEN s
  ELSE <<Head(s)>> \o set_insert(Tail(s), x)

\* Sorted insertion that keeps repetitions (std::sort of a HandleSeq).
RECURSIVE sort_insert(_, _)
sort_insert(s, x) ==
  IF s = <<>> THEN <<x>>
  ELSE IF x <= Head(s) THEN <<x>> \o s
  ELSE <<Head(s)>> \o sort_insert(Tail(s), x)

\* The implicand instantiated once per reported grounding, as a list in
\* the order reported (what a HandleSeq of results would hold).
RECURSIVE get_result_list(_, _)
get_result_list(implicand, raw) ==
  IF raw = <<>> THEN <<>>
  ELSE <<Instantiate(implicand, Head(raw))>> \o get_result_list(implicand, Tail(raw))

\* impl.get_result_set(): a HandleSet holding the implicand instantiated
\* once per reported grounding.
RECURSIVE get_result_set(_, _)
get_result_set(implicand, raw) ==
  IF raw = <<>> THEN <<>>
  ELSE set_insert(get_result_set(implicand, SubSeq(raw, 1, Len(raw) - 1)),
                  Instantiate(implicand, raw[Len(raw)]))

\* createUnorderedLink(handles, t): an UnorderedLink puts its outgoing set
\* into a canonical (sorted) order.
RECURSIVE sorted(_)
sorted(s) == IF s = <<>> THEN <<>> ELSE sort_insert(sorted(Tail(s)), Head(s))

createUnorderedLink(hs, t) == [type |-> t, _outgoing |-> sorted(hs)]

\* AtomSpace::add_atom: returns the atom already held that is structurally
\* equal, else adds the atom.  A Handle names the AtomSpace and the slot.
Handle(s, i) == [as |-> s, idx |-> i]
NoHandle == Handle(nullptr, 0)

add_atom(store, atom) ==
  IF \E i \in 1..Len(store) : store[i] = atom
  THEN [store |-> store,
        idx |-> CHOOSE i \in 1..Len(store) : store[i] = atom]
  ELSE [store |-> Append(store, atom), idx |-> Len(store) + 1]

(* ----------------------------- do_execute ----------------------------- *)
\* Faulty variant: the connectivity check is switched on.
do_conn_check_on == TRUE

\* bool do_conn_check=false;
do_conn_check == FALSE

\* Faulty variant: the absence rule never applies (the mandatory test is inverted).
absence_query_never(link, m) ==
  0 < link.mandatory /\ 0 < link.optionals /\ ~ m.optionals_present

\* Faulty variant: the absence rule forgets the mandatory clauses.
absence_query_mixed(link, m) ==
  0 < link.optionals /\ ~ m.optionals_present

\* 0 == pat.mandatory.size() and 0 < pat.optionals.size()
\*    and not intu->optionals_present()
absence_query(link, m) ==
  0 = link.mandatory /\ 0 < link.optionals /\ ~ m.optionals_present

\* Faulty variant: the groundings are returned as the list the matcher reported,
\* not gathered into a set.
do_execute_list(link, as, silent, m) ==
  LET as1 == IF nullptr = as THEN link._atom_space ELSE as
      result_list == get_result_list(link._implicand, m.raw)
  IN
  IF do_conn_check /\ 0 = link._virtual /\ 1 < link._components
  THEN [exc |-> InvalidParamException(DisconnectedMsg, ""),
        result |-> <<>>, as |-> as1, satisfied |-> FALSE]
  ELSE IF m.throws
  THEN [exc |-> [exc |-> "RuntimeException", msg |-> MatcherFailMsg, arg |-> ""],
        result |-> <<>>, as |-> as1, satisfied |-> TRUE]
  ELSE IF 0 < Len(result_list)
  THEN [exc |-> NoException, result |-> result_list, as |-> as1, satisfied |-> TRUE]
  ELSE IF absence_query(link, m)
  THEN [exc |-> NoException,
        result |-> set_insert(<<>>, Instantiate(link._implicand, 0)),
        as |-> as1, satisfied |-> TRUE]
  ELSE [exc |-> NoException, result |-> <<>>, as |-> as1, satisfied |-> TRUE]

\* BindLink::do_execute(as, silent) with the matcher run m.  Yields the
\* exception that leaves the call (or NoException), the HandleSet returned,
\* the AtomSpace the matcher worked on and whether the matcher was invoked.
do_execute(link, as, silent, m) ==
  LET as1 == IF nullptr = as THEN link._atom_space ELSE as
      result_set == get_result_set(link._implicand, m.raw)
  IN
  IF do_conn_check /\ 0 = link._virtual /\ 1 < link._components
  THEN [exc |-> InvalidParamException(DisconnectedMsg, ""),
        result |-> <<>>, as |-> as1, satisfied |-> FALSE]
  ELSE IF m.throws
  THEN [exc |-> [exc |-> "RuntimeException", msg |-> MatcherFailMsg, arg |-> ""],
        result |-> <<>>, as |-> as1, satisfied |-> TRUE]
  ELSE IF 0 < Len(result_set)
  THEN [exc |-> NoException, result |-> result_set, as |-> as1, satisfied |-> TRUE]
  ELSE IF absence_query(link, m)
  THEN [exc |-> NoException,
        result |-> set_insert(<<>>, Instantiate(link._implicand, 0)),
        as |-> as1, satisfied |-> TRUE]
  ELSE [exc |-> NoException, result |-> <<>>, as |-> as1, satisfied |-> TRUE]

(* ------------------------------- execute ------------------------------ *)
\* Faulty variant: PLACE_RESULTS_IN_ATOMSPACE is off; the freshly made SetLink is
\* returned as it is (n numbers the atoms made so far).
execute_unplaced(link, as, silent, m, sts, n, ub) ==
  LET r == do_execute(link, as, silent, m) IN
  [exc |-> r.exc, do_exc |-> r.exc, result |-> r.result, as |-> r.as,
   satisfied |-> r.satisfied, inserted |-> nullptr,
   id |-> IF r.exc = NoException THEN Handle(nullptr, n) ELSE NoHandle,
   sts |-> sts]

\* BindLink::execute(as, silent).  do_execute resolves the AtomSpace in its
\* own copy of `as`; line 206 then calls as->add_atom on the caller's value.
\* With as == nullptr that call is undefined: ub is what the build does,
\* nullptr for a crash, else the AtomSpace the call ends up working on.
execute(link, as, silent, m, sts, n, ub) ==
  LET r == do_execute(link, as, silent, m)
      rewr == createUnorderedLink(r.result, SET_LINK)
      target == IF nullptr = as THEN ub ELSE as
  IN
  IF r.exc # NoException
  THEN [exc |-> r.exc, do_exc |-> r.exc, result |-> r.result, as |-> r.as,
        satisfied |-> r.satisfied,
        inserted |-> nullptr, id |-> NoHandle, sts |-> sts]
  ELSE IF nullptr = target
  THEN [exc |-> SegFault, do_exc |-> r.exc, result |-> r.result, as |-> r.as,
        satisfied |-> r.satisfied,
        inserted |-> nullptr, id |-> NoHandle, sts |-> sts]
  ELSE LET a == add_atom(sts[target], rewr) IN
       [exc |-> NoException, do_exc |-> r.exc, result |-> r.result, as |-> r.as,
        satisfied |-> r.satisfied,
        inserted |-> target, id |-> Handle(target, a.idx),
        sts |-> [sts EXCEPT ![target] = a.store]]

(* ------------------------------- callers ------------------------------ *)
Call(op, as, silent, m, r, before, after) ==
  [op |-> op, as |-> as, silent |-> silent, m |-> m,
   exc |-> r.exc, do_exc |-> r.do_exc, result |-> r.result, resolved |-> r.as,
   satisfied |-> r.satisfied, inserted |-> r.inserted, id |-> r.id,
   before |-> before, after |-> after]

\* What is kept of the call before the latest one.
Earlier(c) ==
  IF c.op = "execute" /\ c.exc = NoException
  THEN [op |-> "execute", raw |-> c.m.raw, result |-> c.result,
        inserted |-> c.inserted, id |-> c.id, after |-> c.after]
  ELSE [op |-> "other"]

Running == obj.type # "none" /\ budget > 0 /\ (last.op # "none" => last.exc # SegFault)

\* A caller invokes do_execute(as, silent) directly.
DoExecuteCall ==
  /\ Running
  /\ \E as \in {nullptr} \cup Stores, silent \in BOOLEAN, m \in MatcherRuns :
       LET r == do_execute(obj, as, silent, m) IN
       last' = Call("do_execute", as, silent, m,
                    [exc |-> r.exc, do_exc |-> r.exc, result |-> r.result,
                     as |-> r.as, satisfied |-> r.satisfied, inserted |-> nullptr,
                     id |-> NoHandle],
                    <<>>, <<>>)
  /\ prev' = (IF last.op = "none" THEN NoCall ELSE Earlier(last))
  /\ budget' = budget - 1
  /\ UNCHANGED <<obj, ctor, stores>>

\* A caller invokes execute(as, silent).
ExecuteCall ==
  /\ Running
  /\ \E as \in {nullptr} \cup Stores, silent \in BOOLEAN, m \in MatcherRuns,
        ub \in {nullptr} \cup Stores :
       LET n == IF last.op = "none" THEN 1 ELSE 2
           r == execute(obj, as, silent, m, stores, n, ub) IN
       /\ (nullptr # as => ub = nullptr)
       /\ last' = Call("execute", as, silent, m, r,
                       IF r.inserted = nullptr THEN <<>> ELSE stores[r.inserted],
                       IF r.inserted = nullptr THEN <<>> ELSE r.sts[r.inserted])
       /\ stores' = r.sts
  /\ prev' = (IF last.op = "none" THEN NoCall ELSE Earlier(last))
  /\ budget' = budget - 1
  /\ UNCHANGED <<obj, ctor>>

NextExec == DoExecuteCall \/ ExecuteCall

\* A BindLink built by BindLink(hseq, BIND_LINK) and, possibly, placed in
\* an AtomSpace (which sets _atom_space).
Built(hseq, env, as) ==
  /\ obj = [init(BIND_LINK, hseq, env).obj EXCEPT !._atom_space = as]
  /\ ctor = CtorCall("BindLink(hseq, t)", hseq, BIND_LINK, init(BIND_LINK, hseq, env))
  /\ stores = [s \in Stores |-> <<>>]
  /\ last = NoCall
  /\ prev = NoCall

ExecOsets == {<<1, 2>>, <<2, 1, 2>>}

\* One call on any pattern.
InitExec ==
  /\ \E hseq \in ExecOsets, env \in Envs, as \in {nullptr} \cup Stores :
       env.declOk /\ Built(hseq, env, as)
  /\ budget = 1

SpecExec == InitExec /\ [][NextExec]_vars

\* Two calls in succession on a connected pattern without mandatory or
\* virtual clauses.
InitRepeat ==
  /\ \E env \in Envs, as \in {nullptr} \cup Stores :
       /\ env.declOk /\ env.mandatory = 0 /\ env.virtual = 0 /\ env.components = 1
       /\ Built(<<1, 2>>, env, as)
  /\ budget = 2

NextRepeat == ExecuteCall

SpecRepeat == InitRepeat /\ [][NextRepeat]_vars

Init ==
  /\ obj = NoObj
  /\ ctor = NoCtor
  /\ stores = [s \in Stores |-> <<>>]
  /\ last = NoCall
  /\ prev = NoCall
  /\ budget = 0

Next == BindLink3 \/ BindLink2 \/ BindLinkSeq \/ BindLinkCopy

Spec == Init /\ [][Next]_vars

(* ------------------------------- claims -------------------------------- *)
Range(s) == {s[i] : i \in 1..Len(s)}
Called == last.op # "none"
ZeroMatch == Called /\ ~ last.m.throws /\ last.m.raw = <<>>
NoStoreError(e) == e.exc = "NoStoreError"

\* C1: when the matcher reports no grounding and the pattern has no
\* mandatory clause, at least one optional clause and optionals_present()
\* is false, do_execute returns normally the singleton set holding the
\* implicand instantiated once.
C1_AbsenceRule ==
  (/\ ZeroMatch
   /\ obj.mandatory = 0 /\ obj.optionals >= 1
   /\ ~ last.m.optionals_present)
  => (/\ last.do_exc = NoException
      /\ Len(last.result) = 1
      /\ last.result[1] = Instantiate(obj._implicand, 0))

C1_Witness ==
  /\ ZeroMatch /\ last.op = "do_execute"
  /\ obj.mandatory = 0 /\ obj.optionals >= 1
  /\ ~ last.m.optionals_present
  /\ Len(last.result) = 1

\* C2: when the matcher reports no grounding and the pattern has a
\* mandatory clause, or has no optional clause, or optionals_present() is
\* true, do_execute returns normally the empty set.
C2_OtherwiseEmpty ==
  (/\ ZeroMatch
   /\ \/ obj.mandatory >= 1
      \/ obj.optionals = 0
      \/ last.m.optionals_present)
  => (last.do_exc = NoException /\ last.result = <<>>)

C2_Witness ==
  /\ ZeroMatch /\ last.op = "do_execute"
  /\ obj.mandatory >= 1 /\ obj.optionals >= 1
  /\ ~ last.m.optionals_present
  /\ last.result = <<>>

\* C3: constructing a bind-kind link with an outgoing set of size 0, 1 or
\* 4 and more fails with the size error and yields no object; a
\* construction with size 2 or 3 never fails with the size error.
C3_ArityChecked ==
  /\ (ctor.how # "none" /\ isA(ctor.t, BIND_LINK) /\ Len(ctor.oset) \notin {2, 3})
       => (StructuralError(ctor.exc) /\ obj.type = "none")
  /\ (ctor.how # "none" /\ Len(ctor.oset) \in {2, 3})
       => ~ StructuralError(ctor.exc)

C3_Witness ==
  /\ ctor.how = "BindLink(hseq, t)"
  /\ Len(ctor.oset) = 4
  /\ StructuralError(ctor.exc)
  /\ obj.type = "none"

\* C4 (as claimed): a matcher failure leaves the call as an error only
\* when silent is false; with silent true the call returns normally, as a
\* query without matches does.
C4_SilentGatesMatchErrors ==
  (Called /\ last.m.throws)
  => (/\ last.silent => (last.do_exc = NoException /\ last.result = <<>>)
      /\ ~ last.silent => MatchError(last.do_exc))

\* C5 (as claimed): an explicit AtomSpace is the one used; without one the
\* link's own AtomSpace is used; with neither, the call fails with a
\* NoStoreError before the matcher is invoked.
C5_StoreResolution ==
  Called
  => (/\ last.as # nullptr => last.resolved = last.as
      /\ (last.as = nullptr /\ obj._atom_space # nullptr)
           => last.resolved = obj._atom_space
      /\ (last.as = nullptr /\ obj._atom_space = nullptr)
           => (NoStoreError(last.do_exc) /\ ~ last.satisfied))

\* C6: executing twice in succession with the same grounding set and the
\* same AtomSpace returns the same Handle both times, and the second
\* insertion leaves the AtomSpace as the first left it.
C6_MaterializeIdempotent ==
  (/\ prev.op = "execute"
   /\ last.op = "execute" /\ last.exc = NoException
   /\ last.result = prev.result
   /\ last.inserted = prev.inserted)
  => (/\ last.id = prev.id
      /\ last.after = prev.after
      /\ \A i, j \in 1..Len(last.after) :
           last.after[i] = last.after[j] => i = j)

C6_Witness ==
  /\ prev.op = "execute"
  /\ last.op = "execute" /\ last.exc = NoException
  /\ last.result = prev.result /\ last.result # <<>>
  /\ last.inserted = prev.inserted
  /\ Len(last.after) = 1

\* C7: two executions whose matcher runs report the same groundings, in
\* another order or with repetitions elsewhere, return the same Handle
\* when they work on the same AtomSpace.
C7_OrderIndependent ==
  (/\ prev.op = "execute"
   /\ last.op = "execute" /\ last.exc = NoException
   /\ Range(last.m.raw) = Range(prev.raw)
   /\ last.m.raw # prev.raw
   /\ last.inserted = prev.inserted)
  => last.id = prev.id

C7_Witness ==
  /\ prev.op = "execute"
  /\ last.op = "execute" /\ last.exc = NoException
  /\ prev.raw = <<1, 1, 2>> /\ last.m.raw = <<2, 1, 2>>
  /\ last.inserted = prev.inserted
  /\ last.id = prev.id

\* C8: whatever the numbers of components and of virtual clauses, no call
\* ends with the disconnected-components error, and the matcher is invoked.
C8_NoConnectivityCheck ==
  Called => (~ DisconnectedError(last.exc) /\ last.satisfied)

C8_Witness ==
  /\ Called
  /\ obj._components >= 2 /\ obj._virtual = 0
  /\ last.satisfied

\* C9: a two-element outgoing set gives body = seq[0], implicand = seq[1],
\* no vardecl and the scope found by free-variable discovery over the body;
\* a three-element one gives vardecl = seq[0], body = seq[1],
\* implicand = seq[2] and the scope parsed from the vardecl.
C9_Decomposition ==
  obj.type # "none"
  => (/\ Len(ctor.oset) = 2
           => (/\ obj._body = ctor.oset[1]
               /\ obj._implicand = ctor.oset[2]
               /\ obj._vardecl = UNDEFINED
               /\ obj._varlist = [how |-> "find_variables", of |-> ctor.oset[1]])
      /\ Len(ctor.oset) = 3
           => (/\ obj._vardecl = ctor.oset[1]
               /\ obj._body = ctor.oset[2]
               /\ obj._implicand = ctor.oset[3]
               /\ obj._varlist =
                    [how |-> "init_scoped_variables", of |-> ctor.oset[1]]))

C9_Witness ==
  /\ obj.type # "none"
  /\ ctor.how = "BindLink(vardecl, body, rewrite)"
  /\ Len(ctor.oset) = 3
  /\ ctor.oset[2] # ctor.oset[3]
  /\ obj._body = ctor.oset[2]

\* C10 (as claimed): when do_execute has returned, execute adds the result
\* to the AtomSpace that do_execute resolved and matched against, also when
\* the caller passed none and the link's own AtomSpace was used.
C10_InsertsWhereMatched ==
  (last.op = "execute" /\ last.do_exc = NoException /\ last.resolved # nullptr)
  => last.inserted = last.resolved

====
